---- MODULE Spec2Model ----
(***************************************************************************)
(* Pixel PokeDex API (src/main.py): the evolution-chain flattening         *)
(* build_evolution_chain, the normaliser normalize_pokemon and the three   *)
(* HTTP handlers get_pokemon, list_pokemon and cache_pokemon.              *)
(*                                                                         *)
(* JSON values are tagged records: null, strings (sequences of one-letter  *)
(* strings), objects (a function from keys to values) and lists.  A Python *)
(* call either returns a value or raises; both are results [exc, ...] with *)
(* exc = "none" for a normal return.                                       *)
(***************************************************************************)
EXTENDS Integers, Sequences, FiniteSets, TLC

VARIABLES chain_node,   \* the argument of build_evolution_chain
          pc,           \* "call" before build_evolution_chain ran, "done" after
          result,       \* what build_evolution_chain returned or raised
          request,      \* the HTTP request the service is answering
          upstream,     \* what the upstream source and the document sink do during it
          calls,        \* the outgoing calls that request made, with their outcomes
          response      \* what the handler returned or raised

chain_vars == <<chain_node, pc, result>>
service_vars == <<request, upstream, calls, response>>
vars == <<chain_node, pc, result, request, upstream, calls, response>>

\* ------------------------------------------------------------------ bounds

MaxNodes == 4      \* nodes of a well-formed evolution tree
MaxId == 3         \* species ids 1..MaxId of a well-formed evolution tree
MaxBadNodes == 3   \* nodes of an evolution tree with malformed nodes
MaxItems == 2      \* items of one upstream listing page

\* ------------------------------------------------------------------ outgoing calls

\* requests.get either raises (the transport failed) or returns a reply with
\* a status code; a reply of status 200 carries the document
TransportError == [outcome |-> "raise"]
Reply(status) == [outcome |-> "reply", status |-> status]
Reply200(body) == [outcome |-> "reply", status |-> 200, body |-> body]
Unused == [outcome |-> "unused"]   \* the request never made this call

\* ------------------------------------------------------------------ JSON

JNull == [t |-> "null"]
JStr(s) == [t |-> "str", v |-> s]
JObj(f) == [t |-> "obj", v |-> f]
JList(l) == [t |-> "list", v |-> l]
EmptyObj == JObj(<<>>)

\* dict.get(key, default); the caller has checked that d is an object
Get(d, key, default) == IF key \in DOMAIN d.v THEN d.v[key] ELSE default

\* Python truthiness of a JSON value (None, "", [] and {} are falsy)
Truthy(j) ==
    CASE j.t = "null" -> FALSE
      [] j.t = "str" -> Len(j.v) > 0
      [] j.t = "list" -> Len(j.v) > 0
      [] j.t = "obj" -> DOMAIN j.v # {}

\* ------------------------------------------------------------------ strings

DigitChars == <<"0", "1", "2", "3", "4", "5", "6", "7", "8", "9">>
IsDigit(c) == \E i \in DOMAIN DigitChars : DigitChars[i] = c
DigitVal(c) == (CHOOSE i \in DOMAIN DigitChars : DigitChars[i] = c) - 1

\* str.rstrip('/')
RECURSIVE RStrip(_)
RStrip(s) ==
    IF Len(s) > 0 /\ s[Len(s)] = "/" THEN RStrip(SubSeq(s, 1, Len(s) - 1)) ELSE s

\* str.split('/')[-1]: what follows the last "/", the whole string without one
LastSegment(s) ==
    LET slashes == {i \in DOMAIN s : s[i] = "/"}
        from == IF slashes = {} THEN 1
                ELSE (CHOOSE i \in slashes : \A j \in slashes : j <= i) + 1
    IN SubSeq(s, from, Len(s))

\* int(text) accepts an optional sign and then one or more decimal digits
\* (white space and underscores are not in the alphabet modelled here)
Unsigned(text) ==
    IF Len(text) > 0 /\ text[1] \in {"-", "+"} THEN SubSeq(text, 2, Len(text)) ELSE text
IsIntLiteral(text) ==
    /\ Len(Unsigned(text)) > 0
    /\ \A i \in DOMAIN Unsigned(text) : IsDigit(Unsigned(text)[i])
RECURSIVE DigitsValue(_)
DigitsValue(ds) ==
    IF Len(ds) = 0 THEN 0
    ELSE 10 * DigitsValue(SubSeq(ds, 1, Len(ds) - 1)) + DigitVal(ds[Len(ds)])
IntValue(text) ==
    IF Len(text) > 0 /\ text[1] = "-" THEN 0 - DigitsValue(Unsigned(text))
    ELSE DigitsValue(Unsigned(text))

\* ------------------------------------------------------------------ build_evolution_chain

SpritePrefix == <<"s", "p", "r", "i", "t", "e", "s", "/", "p", "o", "k", "e", "m", "o", "n", "/">>
\* str(n) for the f-string of the sprite URL
RECURSIVE NatStr(_)
NatStr(n) == IF n < 10 THEN <<DigitChars[n + 1]>> ELSE NatStr(n \div 10) \o <<DigitChars[(n % 10) + 1]>>
IntStr(n) == IF n < 0 THEN <<"-">> \o NatStr(0 - n) ELSE NatStr(n)
SpriteUrl(id) == SpritePrefix \o IntStr(id) \o <<".", "p", "n", "g">>

EvolutionStage(id, name) == [id |-> id, name |-> name, sprite |-> SpriteUrl(id)]

\* lines 83-86: the id is the integer in the last path segment, 0 when
\* anything in the expression raises
ParsePokeId(species_url) ==
    IF species_url.t # "str" THEN 0   \* None, a list or a dict has no rstrip
    ELSE LET seg == LastSegment(RStrip(species_url.v))
         IN IF IsIntLiteral(seg) THEN IntValue(seg) ELSE 0

Returned(stages) == [exc |-> "none", stages |-> stages]
Raised(e, stages) == [exc |-> e, stages |-> stages]

RECURSIVE traverse(_, _)
RECURSIVE traverse_children(_, _, _)

\* mutant: the children are visited last to first
RECURSIVE traverse_children_reversed(_, _, _)
traverse_children_reversed(kids, i, stages) ==
    IF i > Len(kids) THEN Returned(stages)
    ELSE LET r == traverse(kids[Len(kids) + 1 - i], stages)
         IN IF r.exc # "none" THEN r ELSE traverse_children_reversed(kids, i + 1, r.stages)

\* for child in node.get("evolves_to", []): traverse(child)
traverse_children(kids, i, stages) ==
    IF i > Len(kids) THEN Returned(stages)
    ELSE LET r == traverse(kids[i], stages)
         IN IF r.exc # "none" THEN r ELSE traverse_children(kids, i + 1, r.stages)

\* mutant: a node without a name is not emitted but its children are visited
traverse_into_nameless(node, stages) ==
    IF node.t # "obj" THEN Raised("AttributeError", stages)
    ELSE LET species == Get(node, "species", EmptyObj) IN
    IF species.t # "obj" THEN Raised("AttributeError", stages)
    ELSE LET name == Get(species, "name", JNull)
             kids == Get(node, "evolves_to", JList(<<>>))
             emitted == IF Truthy(name)
                        THEN Append(stages, EvolutionStage(
                                 ParsePokeId(Get(species, "url", JStr(<<>>))), name.v))
                        ELSE stages
         IN IF kids.t = "list" THEN traverse_children(kids.v, 1, emitted)
            ELSE Raised("TypeError", emitted)

\* mutant: a node whose id cannot be read ends the traversal of its subtree
traverse_stops_at_bad_id(node, stages) ==
    IF node.t # "obj" THEN Raised("AttributeError", stages)
    ELSE LET species == Get(node, "species", EmptyObj) IN
    IF species.t # "obj" THEN Raised("AttributeError", stages)
    ELSE LET name == Get(species, "name", JNull)
             poke_id == ParsePokeId(Get(species, "url", JStr(<<>>)))
             kids == Get(node, "evolves_to", JList(<<>>))
         IN IF ~Truthy(name) \/ poke_id = 0 THEN Returned(stages)
            ELSE IF kids.t = "list"
                 THEN traverse_children(kids.v, 1, Append(stages, EvolutionStage(poke_id, name.v)))
                 ELSE Raised("TypeError", stages)

traverse(node, stages) ==
    IF node.t # "obj" THEN Raised("AttributeError", stages)
    ELSE LET species == Get(node, "species", EmptyObj) IN
    IF species.t # "obj" THEN Raised("AttributeError", stages)
    ELSE LET name == Get(species, "name", JNull) IN
    IF ~Truthy(name) THEN Returned(stages)
    ELSE LET poke_id == ParsePokeId(Get(species, "url", JStr(<<>>))) IN
    IF name.t # "str" THEN Raised("ValidationError", stages)
    ELSE LET emitted == Append(stages, EvolutionStage(poke_id, name.v))
             kids == Get(node, "evolves_to", JList(<<>>))
         IN CASE kids.t = "list" -> traverse_children(kids.v, 1, emitted)
              [] kids.t = "null" -> Raised("TypeError", emitted)
              [] kids.t = "str" ->
                    IF Len(kids.v) = 0 THEN Returned(emitted)
                    ELSE Raised("AttributeError", emitted)
              [] kids.t = "obj" ->
                    IF DOMAIN kids.v = {} THEN Returned(emitted)
                    ELSE Raised("AttributeError", emitted)

\* mutant: the stages of id 0 are kept
RECURSIVE DedupKeepsZero(_, _, _, _)
DedupKeepsZero(stages, i, seen, deduped) ==
    IF i > Len(stages) THEN deduped
    ELSE LET s == stages[i]
         IN IF s.id \notin seen
            THEN DedupKeepsZero(stages, i + 1, seen \cup {s.id}, Append(deduped, s))
            ELSE DedupKeepsZero(stages, i + 1, seen, deduped)

\* lines 92-97: keep the first stage of each id, drop id 0
RECURSIVE Dedup(_, _, _, _)
Dedup(stages, i, seen, deduped) ==
    IF i > Len(stages) THEN deduped
    ELSE LET s == stages[i]
         IN IF s.id \notin seen /\ s.id # 0
            THEN Dedup(stages, i + 1, seen \cup {s.id}, Append(deduped, s))
            ELSE Dedup(stages, i + 1, seen, deduped)

build_evolution_chain(node) ==
    LET t == traverse(node, <<>>)
    IN IF t.exc # "none" THEN [exc |-> t.exc, value |-> <<>>]
       ELSE [exc |-> "none", value |-> Dedup(t.stages, 1, {}, <<>>)]

\* ------------------------------------------------------------------ evolution-chain graphs

\* What the upstream source sends for species k: its name and the URL whose
\* last path segment is k, "https://pokeapi.co/api/v2/pokemon-species/k/"
SpeciesName(k) == <<"s">> \o NatStr(k)
SpeciesUrlPrefix == <<"v", "2", "/">>
SpeciesUrl(k) == SpeciesUrlPrefix \o NatStr(k) \o <<"/">>
SpeciesRef(k) == JObj([name |-> JStr(SpeciesName(k)), url |-> JStr(SpeciesUrl(k))])

\* A node is drawn as a kind (its species field, or none) and its children
Kind(species) == [has_species |-> TRUE, species |-> species]
NoSpeciesKind == [has_species |-> FALSE, species |-> JNull]
MakeNode(kind, kids) ==
    IF kind.has_species
    THEN JObj([species |-> kind.species, evolves_to |-> JList(kids)])
    ELSE JObj([evolves_to |-> JList(kids)])

\* ordered trees of exactly n nodes: inner nodes (and leaves) of the kinds K,
\* further leaves from L
RECURSIVE TreesOf(_, _, _)
RECURSIVE ForestsOf(_, _, _)
TreesOf(n, K, L) ==
    IF n = 1 THEN {MakeNode(k, <<>>) : k \in K} \cup L
    ELSE {MakeNode(k, f) : k \in K, f \in ForestsOf(n - 1, K, L)}
ForestsOf(n, K, L) ==
    IF n = 0 THEN {<<>>}
    ELSE UNION {{<<t>> \o f : t \in TreesOf(m, K, L), f \in ForestsOf(n - m, K, L)} : m \in 1..n}
TreesUpTo(n, K, L) == UNION {TreesOf(m, K, L) : m \in 1..n}

\* well-formed graphs: every node names a species 1..MaxId
GoodKinds == {Kind(SpeciesRef(k)) : k \in 1..MaxId}
GoodTrees(nodes) == TreesUpTo(nodes, GoodKinds, {})

\* the two graphs of the specification's examples
Leaf(k) == MakeNode(Kind(SpeciesRef(k)), <<>>)
PinnedTree ==
    MakeNode(Kind(SpeciesRef(1)), <<MakeNode(Kind(SpeciesRef(2)), <<Leaf(4)>>), Leaf(3)>>)
ReconvergingTree ==
    MakeNode(Kind(SpeciesRef(1)),
             <<MakeNode(Kind(SpeciesRef(2)), <<Leaf(4)>>), MakeNode(Kind(SpeciesRef(3)), <<Leaf(4)>>)>>)

\* graphs with malformed nodes
BadName == <<"b">>   \* the name of the nodes whose URL yields no id
OddName == <<"o">>   \* the name of the nodes whose URL is unusual but yields an id
Named(name, url) == JObj([name |-> JStr(name), url |-> url])
Nameless == {JObj(<<>>),                                           \* no name key
             JObj([name |-> JStr(<<>>), url |-> JStr(SpeciesUrl(1))]),   \* name ""
             JObj([name |-> JNull, url |-> JStr(SpeciesUrl(1))])}        \* name null
BadUrls == {JObj([name |-> JStr(BadName)]),                        \* no url key
            Named(BadName, JNull),                                 \* url null
            Named(BadName, JStr(<<"v", "2", "/", "x", "/">>)),     \* not a number
            Named(BadName, JStr(<<"v", "2", "/">>))}               \* no id segment
NoTrailingSlash == Named(OddName, JStr(<<"v", "2", "/", "3">>))
TwoSlashes == Named(OddName, JStr(<<"v", "/", "1", "2", "/", "/">>))
ZeroUrl == Named(OddName, JStr(<<"v", "2", "/", "0", "/">>))
OddUrls == {NoTrailingSlash, TwoSlashes, ZeroUrl}
WrongShape == {JNull,                                              \* species null
               JStr(<<"x">>)}                                      \* species a string
AllBadKinds ==
    {Kind(s) : s \in {SpeciesRef(1)} \cup Nameless \cup BadUrls \cup OddUrls \cup WrongShape}
        \cup {NoSpeciesKind}
\* one kind of each sort, for the larger graphs
CoreBadKinds ==
    {Kind(SpeciesRef(1)), NoSpeciesKind,
     Kind(JObj([name |-> JStr(<<>>), url |-> JStr(SpeciesUrl(1))])),
     Kind(JObj([name |-> JStr(BadName)])),
     Kind(Named(BadName, JStr(<<"v", "2", "/", "x", "/">>))),
     Kind(NoTrailingSlash),
     Kind(JNull)}
\* leaves whose evolves_to is missing, null or no list
CoreBadLeaves == {JObj([species |-> SpeciesRef(2)]),
                  JObj([species |-> SpeciesRef(2), evolves_to |-> JNull]),
                  JObj([species |-> SpeciesRef(2), evolves_to |-> JStr(<<"x">>)])}
AllBadLeaves == CoreBadLeaves \cup {JObj([species |-> SpeciesRef(2), evolves_to |-> EmptyObj])}
\* roots that are no node at all: evo.get("chain", {}) of a document without
\* a chain, with a null chain, with a list for a chain
BadRoots == {EmptyObj, JNull, JList(<<>>)}
\* the larger graphs over one kind of each sort, the smaller over every kind
CoreBadTrees(nodes) == TreesUpTo(nodes, CoreBadKinds, CoreBadLeaves)
AllBadTrees(nodes) == TreesUpTo(nodes - 1, AllBadKinds, AllBadLeaves)


\* ------------------------------------------------------------------ the traversal as a specification

NoResult == [exc |-> "none", value |-> <<>>]
NoRequest == [op |-> "none"]
NoResponse == [kind |-> "none"]
NoUpstream == [listing |-> Unused, scripts |-> <<>>, sink |-> "unused"]

InitChain ==
    /\ \/ chain_node \in GoodTrees(MaxNodes)
       \/ chain_node \in {PinnedTree, ReconvergingTree}
       \/ chain_node \in CoreBadTrees(MaxBadNodes)
       \/ chain_node \in AllBadTrees(MaxBadNodes)
       \/ chain_node \in BadRoots
    /\ pc = "call"
    /\ result = NoResult
    /\ request = NoRequest
    /\ upstream = NoUpstream
    /\ calls = <<>>
    /\ response = NoResponse

BuildEvolutionChain ==
    /\ pc = "call"
    /\ result' = build_evolution_chain(chain_node)
    /\ pc' = "done"
    /\ UNCHANGED <<chain_node, request, upstream, calls, response>>

NextChain == BuildEvolutionChain

SpecChain == InitChain /\ [][NextChain]_vars

\* ------------------------------------------------------------------ reading a graph by positions

\* A position is the path of child indexes from the root.  Positions are read
\* off the graph itself, without the traversal.
ChildrenOf(node) ==
    IF node.t = "obj" /\ "evolves_to" \in DOMAIN node.v /\ node.v["evolves_to"].t = "list"
    THEN node.v["evolves_to"].v ELSE <<>>
RECURSIVE Positions(_)
Positions(node) ==
    {<<>>} \cup UNION {{<<i>> \o p : p \in Positions(ChildrenOf(node)[i])} :
                       i \in DOMAIN ChildrenOf(node)}
RECURSIVE NodeAt(_, _)
NodeAt(node, p) == IF p = <<>> THEN node ELSE NodeAt(ChildrenOf(node)[p[1]], Tail(p))

IsPrefix(p, q) == Len(p) <= Len(q) /\ SubSeq(q, 1, Len(p)) = p
\* p comes before q in pre-order: p is a proper ancestor of q, or at the first
\* index where they differ p takes the earlier child
Before(p, q) ==
    \/ IsPrefix(p, q) /\ p # q
    \/ \E k \in 1..Len(p) : /\ k <= Len(q)
                            /\ SubSeq(p, 1, k - 1) = SubSeq(q, 1, k - 1)
                            /\ p[k] < q[k]

SpeciesOf(node) ==
    IF node.t = "obj" /\ "species" \in DOMAIN node.v THEN node.v["species"] ELSE EmptyObj
HasName(node) ==
    /\ SpeciesOf(node).t = "obj"
    /\ "name" \in DOMAIN SpeciesOf(node).v
    /\ SpeciesOf(node).v["name"].t = "str"
    /\ SpeciesOf(node).v["name"].v # <<>>
\* the id each species reference of the graphs above stands for, 0 for none
KnownIds == (1..MaxId) \cup {1, 2, 3, 4}
ExpectedId(node) ==
    LET sp == SpeciesOf(node) IN
    CASE \E k \in KnownIds : sp = SpeciesRef(k) -> CHOOSE k \in KnownIds : sp = SpeciesRef(k)
      [] sp = NoTrailingSlash -> 3
      [] sp = TwoSlashes -> 12
      [] OTHER -> 0
\* every node is an object with an object for species and a list (or nothing)
\* for evolves_to
WellShaped(node) ==
    \A p \in Positions(node) :
        LET n == NodeAt(node, p) IN
        /\ n.t = "obj"
        /\ SpeciesOf(n).t = "obj"
        /\ "evolves_to" \in DOMAIN n.v => n.v["evolves_to"].t = "list"
WellFormed(node) ==
    /\ WellShaped(node)
    /\ \A p \in Positions(node) : HasName(NodeAt(node, p)) /\ ExpectedId(NodeAt(node, p)) # 0
\* the traversal reaches p: the root and every node on the way to p has a name
Reached(node, p) ==
    \A k \in 0..Len(p) : HasName(NodeAt(node, SubSeq(p, 1, k)))

Ids(stages) == [i \in DOMAIN stages |-> stages[i].id]
IdSet(stages) == {stages[i].id : i \in DOMAIN stages}
Done == pc = "done"
ReturnedOk == pc = "done" /\ result.exc = "none"

\* ------------------------------------------------------------------ claims on build_evolution_chain

\* C1: whenever build_evolution_chain returns, no two stages of the returned
\* sequence have the same id and no stage has id 0.
C1_UniqueNonZeroIds ==
    ReturnedOk =>
        /\ \A i, j \in DOMAIN result.value :
              result.value[i].id = result.value[j].id => i = j
        /\ \A i \in DOMAIN result.value : result.value[i].id # 0

\* a graph whose traversal met one id twice and a node of id 0
C1_Witness ==
    /\ ReturnedOk
    /\ LET st == traverse(chain_node, <<>>).stages
       IN /\ \E i, j \in DOMAIN st : i < j /\ st[i].id = st[j].id /\ st[i].id # 0
          /\ \E i \in DOMAIN st : st[i].id = 0
    /\ Len(result.value) >= 1

\* the first position, in pre-order, of a node with this id
FirstPosition(node, id) ==
    CHOOSE p \in Positions(node) :
        /\ ExpectedId(NodeAt(node, p)) = id
        /\ \A q \in Positions(node) : ExpectedId(NodeAt(node, q)) = id => (q = p \/ Before(p, q))

\* C2: on a well-formed graph the result lists every id of the graph once,
\* ordered by the pre-order position (children in source order) of the id's
\* first occurrence; the pinned graph 1 -> [2 -> [4], 3] gives [1, 2, 4, 3]
\* and the reconverging graph 1 -> [2 -> [4], 3 -> [4]] gives [1, 2, 4, 3].
C2_PreOrderFirstOccurrence ==
    (Done /\ WellFormed(chain_node)) =>
        /\ result.exc = "none"
        /\ IdSet(result.value) = {ExpectedId(NodeAt(chain_node, p)) : p \in Positions(chain_node)}
        /\ \A i, j \in DOMAIN result.value :
              i < j => Before(FirstPosition(chain_node, result.value[i].id),
                              FirstPosition(chain_node, result.value[j].id))
        /\ \A i \in DOMAIN result.value :
              result.value[i].name =
                  SpeciesOf(NodeAt(chain_node, FirstPosition(chain_node, result.value[i].id))).v["name"].v
        /\ chain_node = PinnedTree => Ids(result.value) = <<1, 2, 4, 3>>
        /\ chain_node = ReconvergingTree => Ids(result.value) = <<1, 2, 4, 3>>

C2_Witness ==
    /\ Done
    /\ chain_node = ReconvergingTree
    /\ Ids(result.value) = <<1, 2, 4, 3>>

HasBadUrl(node) == HasName(node) /\ SpeciesOf(node) \in BadUrls

\* C4: a named node whose URL is absent or does not end in an integer gets
\* id 0 and is not in the output, and the traversal goes on: it does not
\* raise, and every node with a valid id that is reached through named nodes
\* (the children of the bad node among them) is in the output.
C4_BadUrlDoesNotAbort ==
    (Done /\ WellShaped(chain_node)) =>
        /\ result.exc = "none"
        /\ \A p \in Positions(chain_node) :
              (HasBadUrl(NodeAt(chain_node, p)) /\ Reached(chain_node, p)) =>
                  /\ \E i \in DOMAIN traverse(chain_node, <<>>).stages :
                        traverse(chain_node, <<>>).stages[i] = EvolutionStage(0, BadName)
                  /\ \A i \in DOMAIN result.value : result.value[i].name # BadName
        /\ \A p \in Positions(chain_node) :
              (Reached(chain_node, p) /\ ExpectedId(NodeAt(chain_node, p)) # 0) =>
                  ExpectedId(NodeAt(chain_node, p)) \in IdSet(result.value)

\* a bad-URL node with a valid child, which is in the output
C4_Witness ==
    /\ ReturnedOk
    /\ \E p, q \in Positions(chain_node) :
          /\ Len(q) = Len(p) + 1 /\ IsPrefix(p, q)
          /\ HasBadUrl(NodeAt(chain_node, p))
          /\ Reached(chain_node, q)
          /\ ExpectedId(NodeAt(chain_node, q)) # 0
          /\ ExpectedId(NodeAt(chain_node, q)) \in IdSet(result.value)

\* the root is empty, or nothing of it can be read
UnparseableRoot(node) == node.t # "obj" \/ ~HasName(node)

\* C5 as stated: build_evolution_chain never raises, whatever the graph, and
\* returns the empty sequence for an empty or unparseable root.
C5_NeverRaises ==
    Done =>
        /\ result.exc = "none"
        /\ UnparseableRoot(chain_node) => result.value = <<>>

\* ------------------------------------------------------------------ text of names

LowerChars == <<"a", "b", "c">>
UpperChars == <<"A", "B", "C">>
IsLower(c) == \E i \in DOMAIN LowerChars : LowerChars[i] = c
IsUpper(c) == \E i \in DOMAIN UpperChars : UpperChars[i] = c
ToLower(c) == IF IsUpper(c) THEN LowerChars[CHOOSE i \in DOMAIN UpperChars : UpperChars[i] = c] ELSE c
ToUpper(c) == IF IsLower(c) THEN UpperChars[CHOOSE i \in DOMAIN LowerChars : LowerChars[i] = c] ELSE c
\* str.lower()
Lower(text) == [i \in DOMAIN text |-> ToLower(text[i])]
\* str.title(): a letter that follows no letter is upper-cased, every other lower-cased
Title(text) ==
    [i \in DOMAIN text |->
        IF i = 1 \/ ~(IsLower(text[i - 1]) \/ IsUpper(text[i - 1]))
        THEN ToUpper(text[i]) ELSE ToLower(text[i])]
\* needle in hay
Contains(hay, needle) ==
    \E i \in 0..(Len(hay) - Len(needle)) : SubSeq(hay, i + 1, i + Len(needle)) = needle

\* Optional[str] parameters
None == [some |-> FALSE]
Some(x) == [some |-> TRUE, v |-> x]

\* ------------------------------------------------------------------ the upstream source


TypeSlot(name) == [type |-> [name |-> name]]
StatSlot(name, base) == [stat |-> [name |-> name], base_stat |-> base]
RawPokemon(id, name, types, stats, height, weight) ==
    [id |-> id, name |-> name, types |-> types, stats |-> stats,
     height |-> height, weight |-> weight]
AllStats ==
    <<StatSlot("hp", 35), StatSlot("attack", 55), StatSlot("defense", 40),
      StatSlot("special-attack", 50), StatSlot("special-defense", 50), StatSlot("speed", 90)>>
RawDocs ==
    {RawPokemon(1, <<"a", "b">>, <<TypeSlot("fire")>>, AllStats, 7, 69),
     RawPokemon(2, <<"b", "-", "a">>, <<TypeSlot("water"), TypeSlot("grass")>>,
                <<StatSlot("hp", 10), StatSlot("hp", 20)>>, 4, 60)}
\* a record whose types list holds a slot without "type"
MalformedRaw == RawPokemon(4, <<"a">>, <<[slot |-> 1]>>, <<>>, 1, 1)

ChainUrl == JStr(<<"v", "2", "/", "e", "/", "1", "/">>)
SpeciesDocs ==
    {JObj([evolution_chain |-> JObj([url |-> ChainUrl])]),
     JObj([evolution_chain |-> JNull]),
     JObj([name |-> JStr(<<"a">>)])}
EvoDocs ==
    {JObj([chain |-> ReconvergingTree]),
     JObj([id |-> JStr(<<"1">>)]),     \* no chain
     JObj([chain |-> JNull])}

BasicOutcomes == {Reply200(d) : d \in RawDocs \cup {MalformedRaw}}
                     \cup {Reply(404), Reply(500), TransportError}
SpeciesOutcomes == {Reply200(d) : d \in SpeciesDocs} \cup {Reply(404), TransportError}
EvoOutcomes == {Reply200(d) : d \in EvoDocs} \cup {Reply(404), TransportError}

\* ------------------------------------------------------------------ results of Python calls

Ok(v, log) == [exc |-> "none", value |-> v, calls |-> log]
Exc(e, log) == [exc |-> e, calls |-> log]
HTTPException(status_code, log) == [exc |-> "HTTPException", status_code |-> status_code, calls |-> log]
Call(fn, arg, outcome) == [fn |-> fn, arg |-> arg, outcome |-> outcome]

\* ------------------------------------------------------------------ fetchers

\* o is what requests.get does for this call
fetch_pokemon_basic(poke_id_or_name, o) ==
    IF o.outcome = "raise" THEN Exc("ConnectionError", <<Call("fetch_pokemon_basic", poke_id_or_name, o)>>)
    ELSE IF o.status # 200 THEN HTTPException(404, <<Call("fetch_pokemon_basic", poke_id_or_name, o)>>)
    ELSE Ok(o.body, <<Call("fetch_pokemon_basic", poke_id_or_name, o)>>)

\* None is JNull
fetch_species(poke_id, o) ==
    IF o.outcome = "raise" THEN Exc("ConnectionError", <<Call("fetch_species", poke_id, o)>>)
    ELSE IF o.status # 200 THEN Ok(JNull, <<Call("fetch_species", poke_id, o)>>)
    ELSE Ok(o.body, <<Call("fetch_species", poke_id, o)>>)

fetch_evolution_chain(url, o) ==
    IF o.outcome = "raise" THEN Exc("ConnectionError", <<Call("fetch_evolution_chain", url, o)>>)
    ELSE IF o.status # 200 THEN Ok(JNull, <<Call("fetch_evolution_chain", url, o)>>)
    ELSE Ok(o.body, <<Call("fetch_evolution_chain", url, o)>>)

\* ------------------------------------------------------------------ normalize_pokemon

\* stats_map.get(key, 0): a later entry of the list replaces an earlier one
StatOf(stats, key) ==
    LET at == {i \in DOMAIN stats : stats[i].stat.name = key}
    IN IF at = {} THEN 0 ELSE stats[CHOOSE i \in at : \A j \in at : j <= i].base_stat
Stats(stats) ==
    [hp |-> StatOf(stats, "hp"), attack |-> StatOf(stats, "attack"),
     defense |-> StatOf(stats, "defense"), special_attack |-> StatOf(stats, "special-attack"),
     special_defense |-> StatOf(stats, "special-defense"), speed |-> StatOf(stats, "speed")]
\* x / 10.0, kept as a fraction
Tenths(x) == [num |-> x, den |-> 10]
ArtworkPrefix == SpritePrefix \o <<"o", "t", "h", "e", "r", "/">>
Pokemon(raw, evolution) ==
    [id |-> raw.id,
     name |-> Title(raw.name),
     types |-> [i \in DOMAIN raw.types |-> raw.types[i].type.name],
     height |-> Tenths(raw.height),
     weight |-> Tenths(raw.weight),
     stats |-> Stats(raw.stats),
     sprite |-> SpriteUrl(raw.id),
     spriteHD |-> ArtworkPrefix \o IntStr(raw.id) \o <<".", "p", "n", "g">>,
     evolution |-> evolution]

\* `x or {}`
OrEmpty(j) == IF Truthy(j) THEN j ELSE EmptyObj

\* Each step below takes the result of the call before it as a parameter.

\* line 119: evolution = build_evolution_chain(...), built being its result
evolution_built(built, log) ==
    IF built.exc # "none" THEN Exc(built.exc, log) ELSE Ok(built.value, log)

\* lines 117-119, evo being the result of fetch_evolution_chain
evolution_from(evo, log) ==
    IF evo.exc # "none" THEN Exc(evo.exc, log \o evo.calls)
    ELSE IF ~Truthy(evo.value) THEN Ok(<<>>, log \o evo.calls)
    ELSE evolution_built(build_evolution_chain(Get(evo.value, "chain", EmptyObj)),
                         log \o evo.calls)

\* lines 114-117, evolution_chain being (species.get("evolution_chain") or {})
evolution_at(evolution_chain, script, log) ==
    IF evolution_chain.t # "obj" THEN Exc("AttributeError", log)
    ELSE IF ~Truthy(Get(evolution_chain, "url", JNull)) THEN Ok(<<>>, log)
    ELSE evolution_from(
             fetch_evolution_chain(Get(evolution_chain, "url", JNull), script.evo), log)

\* lines 113-114, species being the result of fetch_species
evolution_of(species, script) ==
    IF species.exc # "none" THEN Exc(species.exc, species.calls)
    ELSE evolution_at(OrEmpty(Get(OrEmpty(species.value), "evolution_chain", JNull)),
                      script, species.calls)

\* lines 120-130
normalized(raw, evolution) ==
    IF evolution.exc # "none" THEN evolution
    ELSE Ok(Pokemon(raw, evolution.value), evolution.calls)

\* script: what each outgoing call of this normalisation does
normalize_pokemon(raw, script) ==
    IF \E i \in DOMAIN raw.types : "type" \notin DOMAIN raw.types[i]
    THEN Exc("KeyError", <<>>)
    ELSE normalized(raw, evolution_of(fetch_species(raw.id, script.species), script))

\* raw = fetch_pokemon_basic(...); p = normalize_pokemon(raw), as the three
\* handlers run them
after_normalize(raw, p) ==
    IF p.exc # "none" THEN Exc(p.exc, raw.calls \o p.calls)
    ELSE Ok(p.value, raw.calls \o p.calls)
after_fetch(raw, script) ==
    IF raw.exc # "none" THEN raw
    ELSE after_normalize(raw, normalize_pokemon(raw.value, script))
fetch_and_normalize(poke_id_or_name, script) ==
    after_fetch(fetch_pokemon_basic(poke_id_or_name, script.basic), script)

\* the scripts that say "unused" exactly for the calls that are never made
Probe(s) ==
    [basic |-> s.basic,
     species |-> IF s.species = Unused THEN TransportError ELSE s.species,
     evo |-> IF s.evo = Unused THEN TransportError ELSE s.evo]
Fns(log) == {log[i].fn : i \in DOMAIN log}
Consistent(s, made) ==
    /\ (s.species = Unused) <=> "fetch_species" \notin made
    /\ (s.evo = Unused) <=> "fetch_evolution_chain" \notin made
ItemScripts ==
    {s \in [basic : BasicOutcomes,
            species : SpeciesOutcomes \cup {Unused},
            evo : EvoOutcomes \cup {Unused}] :
        Consistent(s, Fns(fetch_and_normalize(<<>>, Probe(s)).calls))}

\* ------------------------------------------------------------------ handlers

OkResponse(body) == [kind |-> "ok", status |-> 200, body |-> body]
HttpError(status) == [kind |-> "http_error", status |-> status]
\* an exception no handler catches leaves the handler; the framework answers
\* it with its internal-server-error page
Unhandled(e) == [kind |-> "unhandled", exc |-> e]
Raises(r) == IF r.exc = "HTTPException" THEN HttpError(r.status_code) ELSE Unhandled(r.exc)
Handled(resp, log) == [response |-> resp, calls |-> log]

\* line 135: return normalize_pokemon(raw)
returned_pokemon(p) ==
    IF p.exc # "none" THEN Handled(Raises(p), p.calls)
    ELSE Handled(OkResponse(p.value), p.calls)

get_pokemon(poke, script) == returned_pokemon(fetch_and_normalize(Lower(poke), script))

\* `if type and ...` / `if q and ...`: None and "" switch the filter off
TypeFilterOn(type) == type.some /\ type.v # ""
QFilterOn(q) == q.some /\ q.v # <<>>
TypesOf(p) == {p.types[i] : i \in DOMAIN p.types}

RECURSIVE list_items(_, _, _, _, _, _, _)

\* mutant: the first item that fails ends the request
list_item_raises(results, scripts, i, type, q, pokes, log, p) ==
    IF p.exc # "none" THEN [exc |-> p.exc, pokes |-> pokes, calls |-> log \o p.calls]
    ELSE IF TypeFilterOn(type) /\ type.v \notin TypesOf(p.value)
    THEN list_items(results, scripts, i + 1, type, q, pokes, log \o p.calls)
    ELSE IF QFilterOn(q) /\ ~Contains(Lower(p.value.name), Lower(q.v))
    THEN list_items(results, scripts, i + 1, type, q, pokes, log \o p.calls)
    ELSE list_items(results, scripts, i + 1, type, q, Append(pokes, p.value), log \o p.calls)

\* lines 149-156, p being the result of the two calls of lines 148-149
list_item(results, scripts, i, type, q, pokes, log, p) ==
    IF p.exc # "none"                              \* except Exception: continue
    THEN list_items(results, scripts, i + 1, type, q, pokes, log \o p.calls)
    ELSE IF TypeFilterOn(type) /\ type.v \notin TypesOf(p.value)
    THEN list_items(results, scripts, i + 1, type, q, pokes, log \o p.calls)
    ELSE IF QFilterOn(q) /\ ~Contains(Lower(p.value.name), Lower(q.v))
    THEN list_items(results, scripts, i + 1, type, q, pokes, log \o p.calls)
    ELSE list_items(results, scripts, i + 1, type, q, Append(pokes, p.value), log \o p.calls)

\* lines 146-156: the loop over the listing, from item i on
list_items(results, scripts, i, type, q, pokes, log) ==
    IF i > Len(results) THEN [exc |-> "none", pokes |-> pokes, calls |-> log]
    ELSE IF "name" \notin DOMAIN results[i]        \* KeyError, caught
    THEN list_items(results, scripts, i + 1, type, q, pokes, log)
    ELSE list_item(results, scripts, i, type, q, pokes, log,
                   fetch_and_normalize(results[i].name, scripts[i]))

\* line 157: return pokes
returned_list(done) ==
    IF done.exc # "none" THEN Handled(Unhandled(done.exc), done.calls)
    ELSE Handled(OkResponse(done.pokes), done.calls)

\* line 143
results_of(body) == IF "results" \in DOMAIN body THEN body.results ELSE <<>>

\* listing: what requests.get does for the paged listing
list_pokemon(limit, offset, type, q, listing, scripts) ==
    IF listing.outcome = "raise"
    THEN Handled(Unhandled("ConnectionError"), <<Call("list", <<limit, offset>>, listing)>>)
    ELSE IF listing.status # 200
    THEN Handled(HttpError(502), <<Call("list", <<limit, offset>>, listing)>>)
    ELSE returned_list(list_items(results_of(listing.body), scripts, 1, type, q, <<>>,
                                  <<Call("list", <<limit, offset>>, listing)>>))

\* mutant: a failure of the document sink leaves the handler
cached_propagates(p, sink) ==
    IF p.exc # "none" THEN Handled(Raises(p), p.calls)
    ELSE IF sink = "raise"
    THEN Handled(Unhandled("Exception"),
                 p.calls \o <<Call("create_document", <<"pokemon", p.value>>, sink)>>)
    ELSE Handled(OkResponse([status |-> "ok", id |-> p.value.id, name |-> p.value.name]),
                 p.calls \o <<Call("create_document", <<"pokemon", p.value>>, sink)>>)

\* lines 164-168, p being the result of lines 162-163; sink is "stored" when
\* create_document returns and "raise" when it raises
cached(p, sink) ==
    IF p.exc # "none" THEN Handled(Raises(p), p.calls)
    ELSE Handled(OkResponse([status |-> "ok", id |-> p.value.id, name |-> p.value.name]),
                 p.calls \o <<Call("create_document", <<"pokemon", p.value>>, sink)>>)

cache_pokemon(poke, script, sink) == cached(fetch_and_normalize(Lower(poke), script), sink)

\* ------------------------------------------------------------------ the service as a specification

Identifiers == {<<"a", "b">>, <<"A", "b">>}
TypeParams == {None, Some(""), Some("fire")}
QParams == {None, Some(<<"A", "b">>)}
ListedName == <<"a", "b">>
\* an item of the listing and what the upstream does while it is handled; an
\* item without a name makes no call
ItemPlans == {[item |-> [name |-> ListedName], script |-> s] : s \in ItemScripts}
                 \cup {[item |-> [url |-> ListedName],
                        script |-> [basic |-> Unused, species |-> Unused, evo |-> Unused]]}
DefaultLimit == 50
DefaultOffset == 0

Init ==
    /\ chain_node = EmptyObj
    /\ pc = "idle"
    /\ result = NoResult
    /\ request = NoRequest
    /\ upstream = NoUpstream
    /\ calls = <<>>
    /\ response = NoResponse

Idle == request = NoRequest

GetPokemon ==
    /\ Idle
    /\ \E poke \in Identifiers, script \in ItemScripts :
          LET done == get_pokemon(poke, script)
          IN /\ request' = [op |-> "get_pokemon", poke |-> poke]
             /\ upstream' = [listing |-> Unused, scripts |-> <<script>>, sink |-> "unused"]
             /\ calls' = done.calls
             /\ response' = done.response
    /\ UNCHANGED chain_vars

\* the listing page the upstream sends: its items, or a document without results
ListingBody(items, with_results) == IF with_results THEN [results |-> items] ELSE [count |-> 0]

ListPokemon ==
    /\ Idle
    /\ \E type \in TypeParams, q \in QParams :
          \/ \E listing \in {Reply(404), Reply(500), TransportError} :
                LET done == list_pokemon(DefaultLimit, DefaultOffset, type, q, listing, <<>>)
                IN /\ request' = [op |-> "list_pokemon", limit |-> DefaultLimit,
                                  offset |-> DefaultOffset, type |-> type, q |-> q]
                   /\ upstream' = [listing |-> listing, scripts |-> <<>>, sink |-> "unused"]
                   /\ calls' = done.calls
                   /\ response' = done.response
          \/ \E n \in 0..MaxItems :
                \E plans \in [1..n -> ItemPlans] :
                   \E with_results \in {b \in BOOLEAN : b \/ n = 0} :
                      LET scripts == [i \in 1..n |-> plans[i].script]
                          body == ListingBody([i \in 1..n |-> plans[i].item], with_results)
                          done == list_pokemon(DefaultLimit, DefaultOffset, type, q,
                                               Reply200(body), scripts)
                      IN /\ request' = [op |-> "list_pokemon", limit |-> DefaultLimit,
                                        offset |-> DefaultOffset, type |-> type, q |-> q]
                         /\ upstream' = [listing |-> Reply200(body), scripts |-> scripts,
                                         sink |-> "unused"]
                         /\ calls' = done.calls
                         /\ response' = done.response
    /\ UNCHANGED chain_vars

CachePokemon ==
    /\ Idle
    /\ \E poke \in Identifiers, script \in ItemScripts, sink \in {"stored", "raise"} :
          LET done == cache_pokemon(poke, script, sink)
              written == "create_document" \in Fns(done.calls)
          IN /\ request' = [op |-> "cache_pokemon", poke |-> poke]
             /\ upstream' = [listing |-> Unused, scripts |-> <<script>>,
                             sink |-> IF written THEN sink ELSE "unused"]
             /\ calls' = done.calls
             /\ response' = done.response
    /\ UNCHANGED chain_vars

\* the response is sent; the service keeps nothing of the request
SendResponse ==
    /\ ~Idle
    /\ request' = NoRequest
    /\ upstream' = NoUpstream
    /\ calls' = <<>>
    /\ response' = NoResponse
    /\ UNCHANGED chain_vars

Next == GetPokemon \/ ListPokemon \/ CachePokemon \/ SendResponse

Spec == Init /\ [][Next]_vars

\* ------------------------------------------------------------------ claims on the handlers

\* the call got no 200 reply: the transport raised or the status is another
CallFailed(c) ==
    \/ c.outcome.outcome = "raise"
    \/ c.outcome.outcome = "reply" /\ c.outcome.status # 200

\* C6 as stated: when the species lookup or the evolution-chain lookup of a
\* normalisation fails, by a non-200 reply or by the call raising, the handler
\* still returns the Pokemon, with an empty evolution list.
C6_LookupFailureYieldsEmptyEvolution ==
    (/\ request.op = "get_pokemon"
     /\ \E i \in DOMAIN calls :
           /\ calls[i].fn \in {"fetch_species", "fetch_evolution_chain"}
           /\ CallFailed(calls[i]))
    => /\ response.kind = "ok"
       /\ response.body.evolution = <<>>

\* C7 as stated: list_pokemon answers 502 whenever the paged listing call
\* fails, the upstream being unreachable included.
C7_ListingFailureIs502 ==
    (request.op = "list_pokemon" /\ CallFailed(calls[1])) => response = HttpError(502)

\* what the request's upstream did for item i of the listing
ListedItems == results_of(upstream.listing.body)
ItemResult(i) == fetch_and_normalize(ListedItems[i].name, upstream.scripts[i])
ItemSucceeds(i) == "name" \in DOMAIN ListedItems[i] /\ ItemResult(i).exc = "none"
\* type is among the record's types; q occurs in the name, letter case aside
PassesType(p) ==
    (request.type.some /\ request.type.v # "") =>
        \E k \in DOMAIN p.types : p.types[k] = request.type.v
PassesQ(p) ==
    (request.q.some /\ request.q.v # <<>>) =>
        \E at \in 0..Len(p.name) :
            /\ at + Len(request.q.v) <= Len(p.name)
            /\ \A k \in DOMAIN request.q.v : ToLower(p.name[at + k]) = ToLower(request.q.v[k])
Kept == {i \in DOMAIN ListedItems :
            ItemSucceeds(i) /\ PassesType(ItemResult(i).value) /\ PassesQ(ItemResult(i).value)}
ListingSucceeded ==
    /\ request.op = "list_pokemon"
    /\ upstream.listing.outcome = "reply"
    /\ upstream.listing.status = 200

\* C8: once the listing succeeded the request does not fail, whatever happens
\* to an item; the response holds, in listing order, exactly the normalised
\* records of the items that were fetched and normalised and pass both filters.
C8_ListOmitsFailedItems ==
    ListingSucceeded =>
        /\ response.kind = "ok"
        /\ Len(response.body) = Cardinality(Kept)
        /\ \A i \in Kept :
              response.body[Cardinality({j \in Kept : j <= i})] = ItemResult(i).value

\* the first item fails, a later one is returned
C8_Witness ==
    /\ ListingSucceeded
    /\ Len(ListedItems) >= 2
    /\ "name" \in DOMAIN ListedItems[1]
    /\ ItemResult(1).exc \in {"ConnectionError", "HTTPException", "KeyError", "AttributeError"}
    /\ Len(ListedItems) \in Kept
    /\ response.kind = "ok"
    /\ Len(response.body) >= 1

\* C9: when cache_pokemon has fetched and normalised the record it hands it
\* to the document sink under "pokemon", and whether the sink stores it or
\* raises, the response is the success record with the record's id and name.
C9_CacheSwallowsSinkFailure ==
    (request.op = "cache_pokemon"
     /\ fetch_and_normalize(Lower(request.poke), upstream.scripts[1]).exc = "none")
    => /\ upstream.sink \in {"stored", "raise"}
       /\ calls[Len(calls)] =
             Call("create_document",
                  <<"pokemon", fetch_and_normalize(Lower(request.poke), upstream.scripts[1]).value>>,
                  upstream.sink)
       /\ response = OkResponse([status |-> "ok",
                                 id |-> upstream.scripts[1].basic.body.id,
                                 name |-> Title(upstream.scripts[1].basic.body.name)])

C9_Witness ==
    /\ request.op = "cache_pokemon"
    /\ upstream.sink = "raise"
    /\ response.kind = "ok"
    /\ response.body.status = "ok"
    /\ response.body.id = 2

\* C10 as stated: get_pokemon answers 404, and returns no Pokemon, whenever
\* the base record cannot be fetched.
C10_BaseFetchFailureIs404 ==
    (request.op = "get_pokemon" /\ CallFailed(calls[1])) => response = HttpError(404)

====
